---- MODULE Spec2Model ----
(***************************************************************************)
(* Perfect Posture (renderer.js second build, dashboard.js SessionTracker, *)
(* auth.js AuthManager): the notification decision engine, the session     *)
(* tracker with its persisted user statistics, and the detection loop      *)
(* that drives both.                                                       *)
(*                                                                         *)
(* Conventions.  Time is Date.now() in milliseconds.  A confidence is the  *)
(* model probability in hundredths (0.6 is 60), the adaptive threshold     *)
(* likewise.  A percentage the code computes in floating point is an exact *)
(* fraction <<numerator, denominator>> in lowest terms.  null is Null for  *)
(* an object, NoUser for the current user and NoTime for a timestamp.      *)
(***************************************************************************)
EXTENDS Integers, Sequences, FiniteSets, TLC

VARIABLES
    now,                          \* Date.now()
    isRunning,                    \* renderer.js:358
    startBtnDisabled,             \* startBtn.disabled
    stopBtnDisabled,              \* stopBtn.disabled
    notificationsEnabled,         \* notificationsEnabledCheckbox.checked
    lastBadPostureNotification,   \* renderer.js:362
    consecutiveBadPostureCount,   \* renderer.js:364
    poseQualityHistory,           \* renderer.js:368
    consistencyHistory,           \* renderer.js:369
    adaptiveThreshold,            \* renderer.js:370
    startsPending,                \* startCamera calls suspended on webcam.setup()/play()
    cyclesAwaiting,               \* detectPose calls suspended on the inference
    timersPending,                \* setTimeout callbacks of detectPose not yet run
    currentSession,               \* SessionTracker.currentSession
    postureReadings,              \* SessionTracker.postureReadings
    sessionStartTime,             \* SessionTracker.sessionStartTime
    currentUser,                  \* AuthManager.currentUser (its email; the object is users[email])
    users,                        \* AuthManager.users: email -> postureData
    localStorage,                 \* the two keys auth.js writes
    alerts,                       \* history: the sendPostureNotification calls made
    badSinceReset,                \* history: qualifying Bad observations since the last reset
    frames,                       \* history: frames classified since the last stopCamera
    observed,                     \* history: the last predictions since the last stopCamera
    staleTimers,                  \* history: pending timers set before the last stopCamera
    lastEnd,                      \* history: what the last stopCamera did with the session
    dashboard,                    \* what loadDashboardData last wrote to the dashboard
    ipcQueue,                     \* 'show-notification' messages sent and not yet handled
    lastNotificationTime,         \* main.js:5
    notificationSupported,        \* Notification.isSupported() of the platform
    handled                       \* history: what the main process did with each request

vars ==
    <<now, isRunning, startBtnDisabled, stopBtnDisabled, notificationsEnabled,
      lastBadPostureNotification, consecutiveBadPostureCount, poseQualityHistory,
      consistencyHistory, adaptiveThreshold, startsPending, cyclesAwaiting,
      timersPending, currentSession, postureReadings, sessionStartTime, currentUser,
      users, localStorage, alerts, badSinceReset, frames, observed, staleTimers,
      lastEnd, dashboard, ipcQueue, lastNotificationTime, notificationSupported,
      handled>>

notifVars == <<lastBadPostureNotification, consecutiveBadPostureCount>>
metricVars == <<poseQualityHistory, consistencyHistory, adaptiveThreshold>>
loopVars == <<startsPending, cyclesAwaiting, timersPending>>
trackerVars == <<currentSession, postureReadings, sessionStartTime>>
storeVars == <<users, localStorage>>
buttonVars == <<startBtnDisabled, stopBtnDisabled>>
historyVars == <<alerts, badSinceReset, frames, observed>>
endVars == <<staleTimers, lastEnd>>
mainVars == <<ipcQueue, lastNotificationTime, notificationSupported, handled>>

(***************************************************************************)
(* Program constants.                                                      *)
(***************************************************************************)
NOTIFICATION_COOLDOWN == 10000
notificationCooldown == 10000
notificationThreshold == 2
weeklyGoal == 80
HistoryLimit == 10
MsPerDay == 86400000

Good == "Good posture"
Bad == "Bad posture"
Leaning == "Leaning Forward"

Null == [null |-> TRUE]
NoUser == "null"
NoTime == -1

(***************************************************************************)
(* Bounds of the model.                                                    *)
(***************************************************************************)
MaxNotifySeconds == 12      \* clock horizon of SpecNotify, seconds past Epoch
MaxSessionQuarters == 6     \* clock horizon of SpecSession, quarter minutes past Epoch
MaxScenarioSeconds == 9     \* clock horizon of SpecScenario, seconds past Epoch
MaxScenarioFrames == 3      \* frames classified between two stopCamera calls, SpecScenario
MaxReadingFrames == 5       \* the same, SpecReadings
MaxNotifyFrames == 4        \* frames classified between two stopCamera calls, SpecNotify
MaxSessionFrames == 2       \* the same, SpecSession
MaxStoreHalves == 3         \* clock horizon of SpecStore, half minutes past Epoch
MaxStoreFrames == 2         \* frames classified between two stopCamera calls, SpecStore
MaxLoopFrames == 2          \* frames classified between two stopCamera calls, SpecLoop
MaxLoops == 2               \* startCamera calls, cycles and timers pending at a Start click, SpecLoop
MaxWarmFrames == 31         \* frames of one kind classified before SpecThreshold begins, at most
MaxThresholdFrames == 2     \* frames classified after them, SpecThreshold
MaxStoredSessions == 7      \* sessions stored when SpecImprovement begins, at most
MaxInsightSessions == 4     \* sessions stored when SpecInsights begins, at most
MaxEngineFrames == 3        \* frames classified between two stopCamera calls, SpecEngine
MaxAlerts == 2              \* alerts kept in the history
MaxRequests == 3            \* 'show-notification' requests a Test Notification click may add to
MaxMainSeconds == 12        \* clock horizon of SpecMain, seconds past Epoch
MaxMainFrames == 4          \* frames classified, SpecMain
MaxCooldownSeconds == 12    \* clock horizon of SpecCooldown, seconds past Epoch
MaxCooldownFrames == 6      \* frames classified between two stopCamera calls, SpecCooldown
MaxRestartHalves == 2       \* clock horizon of SpecRestart, half minutes past Epoch

\* Date.now() at page load: any instant later than one cooldown after the epoch.
Epoch == 2 * notificationCooldown

(***************************************************************************)
(* Exact fractions for the floating point quotients.                       *)
(***************************************************************************)
RECURSIVE Gcd(_, _)
Gcd(a, b) == IF b = 0 THEN a ELSE Gcd(b, a % b)

Frac(n, d) == LET g == Gcd(n, d) IN IF n = 0 THEN <<0, 1>> ELSE <<n \div g, d \div g>>
FracAdd(p, q) == Frac(p[1] * q[2] + q[1] * p[2], p[2] * q[2])
FracDiv(p, k) == Frac(p[1], p[2] * k)
FracLeq(p, q) == p[1] * q[2] <= q[1] * p[2]

RECURSIVE SumPercentage(_)
SumPercentage(sessions) ==
    IF sessions = <<>> THEN <<0, 1>>
    ELSE FracAdd(SumPercentage(Tail(sessions)), Head(sessions).goodPosturePercentage)

RECURSIVE SumDuration(_)
SumDuration(sessions) ==
    IF sessions = <<>> THEN 0 ELSE Head(sessions).duration + SumDuration(Tail(sessions))

\* RoundMinutes with Math.floor in the place of Math.round.
FloorMinutes(ms) == ms \div 60000

\* Math.round(ms / (1000 * 60)) for ms >= 0: halves round up.
RoundMinutes(ms) == (ms + 30000) \div 60000

InitOn(supported) ==
    /\ now = Epoch
    /\ isRunning = FALSE
    /\ startBtnDisabled = FALSE
    /\ stopBtnDisabled \in BOOLEAN
    /\ notificationsEnabled \in BOOLEAN
    /\ lastBadPostureNotification = 0
    /\ consecutiveBadPostureCount = 0
    /\ poseQualityHistory = <<>>
    /\ consistencyHistory = <<>>
    /\ adaptiveThreshold = 60
    /\ startsPending = 0
    /\ cyclesAwaiting = 0
    /\ timersPending = 0
    /\ currentSession = Null
    /\ postureReadings = <<>>
    /\ sessionStartTime = NoTime
    /\ currentUser = NoUser
    /\ users = <<>>
    /\ localStorage = [postureUsers |-> <<>>, currentPostureUser |-> Null]
    /\ alerts = <<>>
    /\ badSinceReset = 0
    /\ frames = 0
    /\ observed = <<>>
    /\ staleTimers = 0
    /\ lastEnd = "none"
    /\ dashboard = Null
    /\ ipcQueue = <<>>
    /\ lastNotificationTime = 0
    /\ notificationSupported = supported
    /\ handled = <<>>

\* The state after page load on a platform that has native notifications.
Init == InitOn(TRUE)

(***************************************************************************)
(* auth.js: AuthManager.                                                   *)
(***************************************************************************)
Registered(email) == email \in DOMAIN users

\* The postureData of a new account.
NewPostureData ==
    [sessions |-> <<>>, totalTime |-> 0, totalSessions |-> 0,
     avgGoodPosture |-> <<0, 1>>, weeklyGoal |-> weeklyGoal]

StoredUser(email, data) == [email |-> email, postureData |-> data]

\* The main app (Start, Stop, the settings) is shown only to a logged-in user.
MainAppShown == currentUser # NoUser

handleRegister(email) ==
    /\ currentUser = NoUser
    /\ ~Registered(email)
    /\ users' = users @@ (email :> NewPostureData)
    /\ currentUser' = email
    /\ localStorage' = [postureUsers |-> users',
                        currentPostureUser |-> StoredUser(email, NewPostureData)]
    /\ UNCHANGED <<now, isRunning, buttonVars, notificationsEnabled, notifVars,
                   metricVars, loopVars, trackerVars, historyVars, endVars, dashboard, mainVars>>

handleLogin(email) ==
    /\ currentUser = NoUser
    /\ Registered(email)
    /\ currentUser' = email
    /\ localStorage' = [postureUsers |-> users,
                        currentPostureUser |-> StoredUser(email, users[email])]
    /\ UNCHANGED <<now, isRunning, buttonVars, notificationsEnabled, notifVars,
                   metricVars, loopVars, trackerVars, users, historyVars, endVars, dashboard, mainVars>>

\* updateUserData({ postureData: data }) for the current user `user`, with
\* localStorage holding `storage` when it is called: a no-op without a user.
updateUserData(user, data, storage) ==
    IF user = NoUser
    THEN /\ users' = users
         /\ localStorage' = storage
    ELSE /\ users' = [users EXCEPT ![user] = data]
         /\ localStorage' = [postureUsers |-> users',
                             currentPostureUser |-> StoredUser(user, data)]

(***************************************************************************)
(* dashboard.js: SessionTracker.                                           *)
(***************************************************************************)
Active == currentSession # Null

NewSession ==
    [timestamp |-> now, duration |-> 0, totalReadings |-> 0,
     goodPostureReadings |-> 0, goodPosturePercentage |-> <<0, 1>>,
     confidence |-> <<>>]

startSession ==
    /\ currentSession' = NewSession
    /\ postureReadings' = <<>>
    /\ sessionStartTime' = now

\* goodPostureReadings / totalReadings * 100
Percentage(good, total) == Frac(good * 100, total)

\* IsGoodReading with the confidence compared with the adaptive threshold.
IsGoodReadingAdaptive(postureClass, confidence) ==
    postureClass = Good /\ confidence > adaptiveThreshold

\* IsGoodReading with the confidence compared by >=.
IsGoodReadingAtThreshold(postureClass, confidence) ==
    postureClass = Good /\ confidence >= 60

\* Whether a reading counts as good posture.
IsGoodReading(postureClass, confidence) == postureClass = Good /\ confidence > 60

\* The session after one more reading.
WithReading(session, postureClass, confidence) ==
    LET total == session.totalReadings + 1
        good == session.goodPostureReadings
                    + (IF IsGoodReading(postureClass, confidence) THEN 1 ELSE 0)
    IN  [session EXCEPT !.totalReadings = total,
                        !.confidence = Append(@, confidence),
                        !.goodPostureReadings = good,
                        !.goodPosturePercentage = Percentage(good, total)]

\* addReading without its guard: a reading with no session opens one.
addReadingUnguarded(postureClass, confidence) ==
    LET session == IF currentSession = Null THEN NewSession ELSE currentSession
    IN  /\ postureReadings' =
                Append(postureReadings, [posture |-> postureClass, confidence |-> confidence])
        /\ currentSession' = WithReading(session, postureClass, confidence)

\* addReading that counts the reading in the session and leaves the reading
\* log alone.
addReadingSessionOnly(postureClass, confidence) ==
    IF currentSession = Null
    THEN UNCHANGED <<currentSession, postureReadings>>
    ELSE /\ postureReadings' = postureReadings
         /\ currentSession' = WithReading(currentSession, postureClass, confidence)

\* The entry's own timestamp is written and never read; it is left out.
addReading(postureClass, confidence) ==
    IF currentSession = Null
    THEN UNCHANGED <<currentSession, postureReadings>>
    ELSE /\ postureReadings' =
                Append(postureReadings, [posture |-> postureClass, confidence |-> confidence])
         /\ currentSession' = WithReading(currentSession, postureClass, confidence)

\* SavedData with the average updated incrementally from the previous average.
SavedDataRunning(data, session) ==
    LET sessions == Append(data.sessions, session)
    IN  [data EXCEPT !.sessions = sessions,
                     !.totalSessions = Len(sessions),
                     !.totalTime = data.totalTime + session.duration,
                     !.avgGoodPosture =
                        IF data.sessions = <<>> THEN session.goodPosturePercentage
                        ELSE FracDiv(FracAdd(data.avgGoodPosture,
                                             session.goodPosturePercentage), 2)]

\* SavedData with totalTime set to the duration of the session just ended.
SavedDataLastDuration(data, session) ==
    LET sessions == Append(data.sessions, session)
    IN  [data EXCEPT !.sessions = sessions,
                     !.totalSessions = Len(sessions),
                     !.totalTime = session.duration,
                     !.avgGoodPosture = FracDiv(SumPercentage(sessions), Len(sessions))]

\* SavedData that appends the session and leaves the aggregates as they were.
SavedDataPartial(data, session) ==
    [data EXCEPT !.sessions = Append(data.sessions, session)]

\* The postureData after the session is appended and the aggregates recomputed.
SavedData(data, session) ==
    LET sessions == Append(data.sessions, session)
    IN  [data EXCEPT !.sessions = sessions,
                     !.totalSessions = Len(sessions),
                     !.totalTime = data.totalTime + session.duration,
                     !.avgGoodPosture = FracDiv(SumPercentage(sessions), Len(sessions))]

\* saveSession that falls back on a registered account when nobody is logged in.
saveSessionToAnyUser(user, session, storage) ==
    LET owner == IF user = NoUser THEN CHOOSE email \in DOMAIN users : TRUE ELSE user
    IN  updateUserData(owner, SavedData(users[owner], session), storage)

\* `user` is what getCurrentUser() returns when the session is ended.
saveSession(user, session, storage) ==
    IF user = NoUser
    THEN /\ users' = users
         /\ localStorage' = storage
    ELSE updateUserData(user, SavedData(users[user], session), storage)

\* LongEnough without the minimum: every ended session is kept.
LongEnoughAlways(duration) == duration >= 0

\* Whether an ended session is kept.
LongEnough(duration) == duration >= 1

\* endSession that stores the session and does not clear the tracker.
endSessionKeepsSession(user, storage) ==
    IF currentSession = Null \/ sessionStartTime = NoTime
    THEN /\ UNCHANGED trackerVars
         /\ users' = users
         /\ localStorage' = storage
    ELSE LET duration == RoundMinutes(now - sessionStartTime)
             ended == [currentSession EXCEPT !.duration = duration]
         IN  /\ IF LongEnough(duration)
                THEN saveSession(user, ended, storage)
                ELSE /\ users' = users
                     /\ localStorage' = storage
             /\ UNCHANGED trackerVars

endSession(user, storage) ==
    IF currentSession = Null \/ sessionStartTime = NoTime
    THEN /\ UNCHANGED trackerVars
         /\ users' = users
         /\ localStorage' = storage
    ELSE LET duration == RoundMinutes(now - sessionStartTime)
             ended == [currentSession EXCEPT !.duration = duration]
         IN  /\ IF LongEnough(duration)
                THEN saveSession(user, ended, storage)
                ELSE /\ users' = users
                     /\ localStorage' = storage
             /\ currentSession' = Null
             /\ postureReadings' = <<>>
             /\ sessionStartTime' = NoTime

(***************************************************************************)
(* renderer.js: the notification decision engine.                          *)
(***************************************************************************)
\* QualifyingBad with the confidence compared by >=.
QualifyingBadAtThreshold(predictedClass, confidence) ==
    predictedClass = Bad /\ confidence >= 60

\* Bad posture with sufficient confidence.
QualifyingBad(predictedClass, confidence) == predictedClass = Bad /\ confidence > 60

\* Good posture with sufficient confidence.
QualifyingGood(predictedClass, confidence) == predictedClass = Good /\ confidence > 60

\* ShouldNotify with the cooldown compared by >= (a firing exactly one cooldown
\* after the last one).
ShouldNotifyAtCooldown(count, last) ==
    count >= notificationThreshold /\ now - last >= notificationCooldown

\* ShouldNotify with the count compared by > (one detection more is needed).
ShouldNotifyLate(count, last) ==
    count > notificationThreshold /\ now - last > notificationCooldown

\* Enough detections counted, and enough time since the last notification.
ShouldNotify(count, last) ==
    count >= notificationThreshold /\ now - last > notificationCooldown

\* handlePostureNotification that goes on counting after it has notified.
handlePostureNotificationKeepsCount(predictedClass, confidence) ==
    LET same == [count |-> consecutiveBadPostureCount,
                 last |-> lastBadPostureNotification, fired |-> FALSE]
    IN  IF ~notificationsEnabled THEN same
        ELSE IF QualifyingBad(predictedClass, confidence)
        THEN LET count == consecutiveBadPostureCount + 1
             IN  IF ShouldNotify(count, lastBadPostureNotification)
                 THEN [count |-> count, last |-> now, fired |-> TRUE]
                 ELSE [same EXCEPT !.count = count]
        ELSE IF QualifyingGood(predictedClass, confidence)
        THEN [same EXCEPT !.count = 0]
        ELSE same

\* handlePostureNotification with the checkbox looked at only where the alert
\* is sent: the count is kept while notifications are off.
handlePostureNotificationCountsWhenOff(predictedClass, confidence) ==
    LET same == [count |-> consecutiveBadPostureCount,
                 last |-> lastBadPostureNotification, fired |-> FALSE]
    IN  IF QualifyingBad(predictedClass, confidence)
        THEN LET count == consecutiveBadPostureCount + 1
             IN  IF notificationsEnabled /\ ShouldNotify(count, lastBadPostureNotification)
                 THEN [count |-> 0, last |-> now, fired |-> TRUE]
                 ELSE [same EXCEPT !.count = count]
        ELSE IF QualifyingGood(predictedClass, confidence)
        THEN [same EXCEPT !.count = 0]
        ELSE same

\* handlePostureNotification with the count capped at notificationThreshold.
handlePostureNotificationCapped(predictedClass, confidence) ==
    LET same == [count |-> consecutiveBadPostureCount,
                 last |-> lastBadPostureNotification, fired |-> FALSE]
    IN  IF ~notificationsEnabled THEN same
        ELSE IF QualifyingBad(predictedClass, confidence)
        THEN LET count == IF consecutiveBadPostureCount < notificationThreshold
                          THEN consecutiveBadPostureCount + 1
                          ELSE notificationThreshold
             IN  IF ShouldNotify(count, lastBadPostureNotification)
                 THEN [count |-> 0, last |-> now, fired |-> TRUE]
                 ELSE [same EXCEPT !.count = count]
        ELSE IF QualifyingGood(predictedClass, confidence)
        THEN [same EXCEPT !.count = 0]
        ELSE same

\* What handlePostureNotification leaves behind: the two counters, and whether
\* it called sendPostureNotification.
handlePostureNotification(predictedClass, confidence) ==
    LET same == [count |-> consecutiveBadPostureCount,
                 last |-> lastBadPostureNotification, fired |-> FALSE]
    IN  IF ~notificationsEnabled THEN same
        ELSE IF QualifyingBad(predictedClass, confidence)
        THEN LET count == consecutiveBadPostureCount + 1
             IN  IF ShouldNotify(count, lastBadPostureNotification)
                 THEN [count |-> 0, last |-> now, fired |-> TRUE]
                 ELSE [same EXCEPT !.count = count]
        ELSE IF QualifyingGood(predictedClass, confidence)
        THEN [same EXCEPT !.count = 0]
        ELSE same

(***************************************************************************)
(* renderer.js: the accuracy metrics.                                      *)
(***************************************************************************)
\* Pushed that drops the new value once the history is full.
PushedKeepsOldest(history, value) ==
    IF Len(history) >= HistoryLimit THEN history ELSE Append(history, value)

\* push, then shift once the history holds more than HistoryLimit entries.
Pushed(history, value) ==
    LET longer == Append(history, value)
    IN  IF Len(longer) > HistoryLimit THEN Tail(longer) ELSE longer

\* visibleKeypoints.length / keypoints.length
PoseQuality(keypoints) ==
    Frac(Cardinality({i \in DOMAIN keypoints : keypoints[i] > 30}), Len(keypoints))

Min(a, b) == IF a < b THEN a ELSE b
Max(a, b) == IF a > b THEN a ELSE b

\* AdaptedThreshold without the cap at 0.9 and the floor at 0.3.
AdaptedThresholdUnclamped(threshold, confidence) ==
    IF confidence > 80 THEN threshold + 1
    ELSE IF confidence < 50 THEN threshold - 1
    ELSE threshold

AdaptedThreshold(threshold, confidence) ==
    IF confidence > 80 THEN Min(threshold + 1, 90)
    ELSE IF confidence < 50 THEN Max(threshold - 1, 30)
    ELSE threshold

\* The reduce of calculateConsistency that sums the history.
RECURSIVE SumOf(_)
SumOf(history) == IF history = <<>> THEN 0 ELSE Head(history) + SumOf(Tail(history))

RECURSIVE SumOfSquares(_)
SumOfSquares(history) ==
    IF history = <<>> THEN 0 ELSE Head(history) * Head(history) + SumOfSquares(Tail(history))

\* The consistency score: the standard deviation of the confidences in the
\* history, 0 for fewer than two.  Math.sqrt is not taken: the score is given
\* by its square, the variance, as an exact fraction (of 1, not of hundredths).
calculateConsistency(history) ==
    LET n == Len(history)
    IN  IF n < 2 THEN <<0, 1>>
        ELSE Frac(n * SumOfSquares(history) - SumOf(history) * SumOf(history),
                  n * n * 10000)

updateAccuracyMetrics(keypoints, confidence) ==
    /\ poseQualityHistory' = Pushed(poseQualityHistory, PoseQuality(keypoints))
    /\ consistencyHistory' = Pushed(consistencyHistory, confidence)
    /\ adaptiveThreshold' = AdaptedThreshold(adaptiveThreshold, confidence)

(***************************************************************************)
(* renderer.js: the camera and the detection loop.                         *)
(***************************************************************************)
\* The class with the highest probability: the scan of detectPose, which
\* starts from maxProb = 0 and predictedClass = '' and replaces them only by a
\* strictly higher probability.
RECURSIVE Scan(_, _, _)
Scan(prediction, i, best) ==
    IF i > Len(prediction) THEN best
    ELSE Scan(prediction, i + 1,
              IF prediction[i].probability > best.maxProb
              THEN [predictedClass |-> prediction[i].className,
                    maxProb |-> prediction[i].probability]
              ELSE best)

Highest(prediction) == Scan(prediction, 1, [predictedClass |-> "", maxProb |-> 0])

\* The history of alerts once the camera is stopped: none is of the current run.
Closed(log) == [i \in DOMAIN log |-> [log[i] EXCEPT !.sinceStop = FALSE]]

\* What endSession does with the session, for the history: there is none
\* ("idle"), it is too short to be kept ("short"), nobody is logged in
\* ("nouser"), or it is stored ("saved").
EndOutcome(user) ==
    IF currentSession = Null \/ sessionStartTime = NoTime THEN "idle"
    ELSE IF ~LongEnough(RoundMinutes(now - sessionStartTime)) THEN "short"
    ELSE IF user = NoUser THEN "nouser"
    ELSE "saved"

\* stopCamera that leaves the notification variables as they are.
stopCameraKeepsEngine(user, storage) ==
    /\ endSession(user, storage)
    /\ isRunning' = FALSE
    /\ startBtnDisabled' = FALSE
    /\ stopBtnDisabled' = TRUE
    /\ UNCHANGED notifVars
    /\ poseQualityHistory' = <<>>
    /\ consistencyHistory' = <<>>
    /\ adaptiveThreshold' = 60
    /\ alerts' = Closed(alerts)
    /\ badSinceReset' = 0
    /\ frames' = 0
    /\ observed' = <<>>
    /\ staleTimers' = timersPending
    /\ lastEnd' = EndOutcome(user)

\* stopCamera(), with getCurrentUser() returning `user`.
stopCamera(user, storage) ==
    /\ endSession(user, storage)
    /\ isRunning' = FALSE
    /\ startBtnDisabled' = FALSE
    /\ stopBtnDisabled' = TRUE
    /\ consecutiveBadPostureCount' = 0
    /\ lastBadPostureNotification' = 0
    /\ poseQualityHistory' = <<>>
    /\ consistencyHistory' = <<>>
    /\ adaptiveThreshold' = 60
    /\ alerts' = Closed(alerts)
    /\ badSinceReset' = 0
    /\ frames' = 0
    /\ observed' = <<>>
    /\ staleTimers' = timersPending
    /\ lastEnd' = EndOutcome(user)

\* A click on Start: startCamera() up to its first await.
ClickStart(maxLoops) ==
    /\ MainAppShown
    /\ ~startBtnDisabled
    /\ startsPending + cyclesAwaiting + timersPending < maxLoops
    /\ startSession
    /\ startsPending' = startsPending + 1
    /\ UNCHANGED <<now, isRunning, buttonVars, notificationsEnabled, notifVars,
                   metricVars, cyclesAwaiting, timersPending, currentUser, storeVars,
                   historyVars, endVars, dashboard, mainVars>>

\* webcam.setup() and webcam.play() resolve: the rest of startCamera(), and
\* detectPose() up to its await.
CameraReady ==
    /\ startsPending > 0
    /\ startsPending' = startsPending - 1
    /\ isRunning' = TRUE
    /\ startBtnDisabled' = TRUE
    /\ stopBtnDisabled' = FALSE
    /\ cyclesAwaiting' = cyclesAwaiting + 1
    /\ UNCHANGED <<now, notificationsEnabled, notifVars, metricVars, timersPending,
                   trackerVars, currentUser, storeVars, historyVars, endVars, dashboard, mainVars>>

\* webcam.setup() or webcam.play() rejects: the catch of startCamera().
CameraFailed ==
    /\ startsPending > 0
    /\ startsPending' = startsPending - 1
    /\ UNCHANGED <<now, isRunning, buttonVars, notificationsEnabled, notifVars,
                   metricVars, cyclesAwaiting, timersPending, trackerVars, currentUser,
                   storeVars, historyVars, endVars, dashboard, mainVars>>

\* A click on Stop.
ClickStop ==
    /\ MainAppShown
    /\ ~stopBtnDisabled
    /\ stopCamera(currentUser, localStorage)
    /\ UNCHANGED <<now, notificationsEnabled, loopVars, currentUser, dashboard, mainVars>>

\* handleLogout that stops the camera before it clears the user.
handleLogoutStopsFirst ==
    /\ currentUser # NoUser
    /\ currentUser' = NoUser
    /\ stopCamera(currentUser, [localStorage EXCEPT !.currentPostureUser = Null])
    /\ UNCHANGED <<now, notificationsEnabled, loopVars, dashboard, mainVars>>

\* handleLogout(): the user is cleared first, then window.stopCamera().
handleLogout ==
    /\ currentUser # NoUser
    /\ currentUser' = NoUser
    /\ stopCamera(NoUser, [localStorage EXCEPT !.currentPostureUser = Null])
    /\ UNCHANGED <<now, notificationsEnabled, loopVars, dashboard, mainVars>>

\* The user ticks or unticks the notifications checkbox.
ToggleNotifications ==
    /\ MainAppShown
    /\ notificationsEnabled' = ~notificationsEnabled
    /\ UNCHANGED <<now, isRunning, buttonVars, notifVars, metricVars, loopVars,
                   trackerVars, currentUser, storeVars, historyVars, endVars, dashboard, mainVars>>

\* The 100 ms timer of a finished cycle fires: detectPose() up to its await
\* when the camera is running, nothing otherwise.  Timers of one delay fire
\* in the order they were set, those set before the last stopCamera first.
TimerFires ==
    /\ timersPending > 0
    /\ timersPending' = timersPending - 1
    /\ cyclesAwaiting' = IF isRunning THEN cyclesAwaiting + 1 ELSE cyclesAwaiting
    /\ staleTimers' = IF staleTimers > 0 THEN staleTimers - 1 ELSE 0
    /\ UNCHANGED <<now, isRunning, buttonVars, notificationsEnabled, notifVars,
                   metricVars, startsPending, trackerVars, currentUser, storeVars,
                   historyVars, lastEnd, dashboard, mainVars>>

\* The inference of a suspended cycle rejects: the catch of detectPose().
InferenceRejects ==
    /\ cyclesAwaiting > 0
    /\ cyclesAwaiting' = cyclesAwaiting - 1
    /\ UNCHANGED <<now, isRunning, buttonVars, notificationsEnabled, notifVars,
                   metricVars, startsPending, timersPending, trackerVars, currentUser,
                   storeVars, historyVars, endVars, dashboard, mainVars>>

\* NoPose that treats the missing pose as a reading of no class with
\* confidence 0.
NoPoseAsReading ==
    /\ cyclesAwaiting > 0
    /\ cyclesAwaiting' = cyclesAwaiting - 1
    /\ timersPending' = timersPending + 1
    /\ addReading("", 0)
    /\ updateAccuracyMetrics(<<>>, 0)
    /\ UNCHANGED <<now, isRunning, buttonVars, notificationsEnabled, notifVars,
                   startsPending, sessionStartTime, currentUser, storeVars,
                   historyVars, endVars, dashboard, mainVars>>

\* The inference of a suspended cycle finds no pose.
NoPose ==
    /\ cyclesAwaiting > 0
    /\ cyclesAwaiting' = cyclesAwaiting - 1
    /\ timersPending' = timersPending + 1
    /\ UNCHANGED <<now, isRunning, buttonVars, notificationsEnabled, notifVars,
                   metricVars, startsPending, trackerVars, currentUser, storeVars,
                   historyVars, endVars, dashboard, mainVars>>

\* window.electronAPI.sendNotification(title, body) of the preload script:
\* ipcRenderer.send('show-notification', ...).  The message carries which of
\* the two titles it has.
sendNotification(queue, title) == Append(queue, [title |-> title])

\* The inference of a suspended cycle returns a pose and its prediction: the
\* rest of detectPose(); an alert goes through sendPostureNotification() to
\* the main process.
Classified(frame, maxFrames) ==
    LET top == Highest(frame.prediction)
        engine == handlePostureNotification(top.predictedClass, top.maxProb)
        seen == IF QualifyingBad(top.predictedClass, top.maxProb)
                THEN badSinceReset + 1 ELSE badSinceReset
    IN  /\ cyclesAwaiting > 0
        /\ frames < maxFrames
        /\ Len(alerts) < MaxAlerts
        /\ cyclesAwaiting' = cyclesAwaiting - 1
        /\ addReading(top.predictedClass, top.maxProb)
        /\ consecutiveBadPostureCount' = engine.count
        /\ lastBadPostureNotification' = engine.last
        /\ updateAccuracyMetrics(frame.keypoints, top.maxProb)
        /\ timersPending' = timersPending + 1
        /\ alerts' = IF engine.fired
                     THEN Append(alerts, [at |-> now, sinceStop |-> TRUE,
                                          qualifying |-> seen])
                     ELSE alerts
        /\ badSinceReset' = IF engine.fired \/ QualifyingGood(top.predictedClass, top.maxProb)
                            THEN 0 ELSE seen
        /\ frames' = frames + 1
        /\ observed' = Pushed(observed, [posture |-> top.predictedClass,
                                         confidence |-> top.maxProb])
        /\ ipcQueue' = IF engine.fired THEN sendNotification(ipcQueue, "posture")
                       ELSE ipcQueue
        /\ UNCHANGED <<now, isRunning, buttonVars, notificationsEnabled, startsPending,
                       sessionStartTime, currentUser, storeVars, endVars, dashboard,
                       lastNotificationTime, notificationSupported, handled>>

\* Time passes.
Tick(ms, horizon) ==
    /\ now + ms <= Epoch + horizon
    /\ now' = now + ms
    /\ UNCHANGED <<isRunning, buttonVars, notificationsEnabled, notifVars, metricVars,
                   loopVars, trackerVars, currentUser, storeVars, historyVars, endVars, dashboard, mainVars>>

(***************************************************************************)
(* dashboard.js: DashboardManager.                                         *)
(***************************************************************************)
\* Array.prototype.slice(begin, end): a negative index counts from the end.
Slice(array, begin, end) ==
    LET len == Len(array)
        from == IF begin < 0 THEN Max(len + begin, 0) ELSE Min(begin, len)
        to == IF end < 0 THEN Max(len + end, 0) ELSE Min(end, len)
    IN  SubSeq(array, from + 1, to)

FracSub(p, q) == Frac(p[1] * q[2] - q[1] * p[2], p[2] * q[2])

\* Math.round of a fraction: the nearest integer, a half rounded up.
MathRound(p) == (2 * p[1] + p[2]) \div (2 * p[2])

\* The reduce of calculateImprovement divided by the length of the window.
AveragePercentage(window) == FracDiv(SumPercentage(window), Len(window))

\* calculateImprovement with every session before the last three as the
\* previous window.
calculateImprovementAllBefore(sessions) ==
    IF Len(sessions) < 2 THEN 0
    ELSE LET recent == Slice(sessions, -3, Len(sessions))
             previous == SubSeq(sessions, 1, Len(sessions) - 3)
         IN  IF Len(previous) = 0 THEN 0
             ELSE MathRound(FracSub(AveragePercentage(recent),
                                    AveragePercentage(previous)))

calculateImprovement(sessions) ==
    IF Len(sessions) < 2 THEN 0
    ELSE LET recent == Slice(sessions, -3, Len(sessions))
             previous == Slice(sessions, -6, -3)
         IN  IF Len(previous) = 0 THEN 0
             ELSE MathRound(FracSub(AveragePercentage(recent),
                                    AveragePercentage(previous)))

FracGeq(p, k) == p[1] >= k * p[2]

Insight(type, title) == [type |-> type, title |-> title]

\* PerformanceInsight with the bands compared by >.
PerformanceInsightAbove(avgPosture) ==
    IF avgPosture[1] > 85 * avgPosture[2] THEN Insight("excellent", "Excellent Posture!")
    ELSE IF avgPosture[1] > 70 * avgPosture[2] THEN Insight("good", "Good Progress")
    ELSE IF avgPosture[1] > 50 * avgPosture[2] THEN Insight("warning", "Needs Attention")
    ELSE Insight("urgent", "Urgent Action Required")

\* The insight of the band avgGoodPosture falls in.
PerformanceInsight(avgPosture) ==
    IF FracGeq(avgPosture, 85) THEN Insight("excellent", "Excellent Posture!")
    ELSE IF FracGeq(avgPosture, 70) THEN Insight("good", "Good Progress")
    ELSE IF FracGeq(avgPosture, 50) THEN Insight("warning", "Needs Attention")
    ELSE Insight("urgent", "Urgent Action Required")

\* The insight on the trend, if any.
TrendInsights(improvement) ==
    IF improvement > 10 THEN <<Insight("excellent", "Great Improvement!")>>
    ELSE IF improvement < -10 THEN <<Insight("warning", "Declining Trend")>>
    ELSE <<>>

\* The sessions begun at most seven times 24 hours ago.  The timestamp is the
\* ISO string of the instant, read back by new Date() to the millisecond.
RecentSessions(sessions) ==
    SelectSeq(sessions, LAMBDA s : now - s.timestamp <= 7 * MsPerDay)

\* The insight on the frequency of sessions, if any.
FrequencyInsights(sessions) ==
    IF Len(RecentSessions(sessions)) < 3
    THEN <<Insight("info", "Monitor More Frequently")>>
    ELSE <<>>

generateInsights(data) ==
    <<PerformanceInsight(data.avgGoodPosture)>>
        \o TrendInsights(calculateImprovement(data.sessions))
        \o FrequencyInsights(data.sessions)

\* The calendar day of an instant (toDateString), counted from the epoch; the
\* local time zone is UTC.
LocalDay(ms) == ms \div MsPerDay

\* getChartData with each day taken as the 24 hours that end as many days ago.
getChartDataByElapsed(sessions) ==
    [i \in 1..7 |->
        LET daySessions ==
                SelectSeq(sessions, LAMBDA s : (now - s.timestamp) \div MsPerDay = 7 - i)
        IN  [date |-> LocalDay(now) - (7 - i),
             value |-> IF Len(daySessions) > 0 THEN AveragePercentage(daySessions)
                       ELSE <<0, 1>>,
             sessions |-> Len(daySessions)]]

\* One entry for each of the last seven calendar days, today the last.
getChartData(sessions) ==
    [i \in 1..7 |->
        LET date == LocalDay(now) - (7 - i)
            daySessions == SelectSeq(sessions, LAMBDA s : LocalDay(s.timestamp) = date)
        IN  [date |-> date,
             value |-> IF Len(daySessions) > 0 THEN AveragePercentage(daySessions)
                       ELSE <<0, 1>>,
             sessions |-> Len(daySessions)]]

\* The dashboard is opened by the logged-in user: showDashboard(), that is
\* loadDashboardData() and then initChart().
loadDashboardData ==
    /\ MainAppShown
    /\ dashboard' = [improvement |-> calculateImprovement(users[currentUser].sessions),
                     insights |-> generateInsights(users[currentUser]),
                     chart |-> getChartData(users[currentUser].sessions)]
    /\ UNCHANGED <<now, isRunning, buttonVars, notificationsEnabled, notifVars,
                   metricVars, loopVars, trackerVars, currentUser, storeVars,
                   historyVars, endVars, mainVars>>

(***************************************************************************)
(* main.js: the main process's 'show-notification' handler, and the        *)
(* renderer's Test Notification button that also sends to it.              *)
(***************************************************************************)
\* A click on Test Notification: testNotification() sends its test title on
\* the channel the posture alerts use.
testNotification ==
    /\ MainAppShown
    /\ Len(ipcQueue) + Len(handled) < MaxRequests
    /\ ipcQueue' = sendNotification(ipcQueue, "test")
    /\ UNCHANGED <<now, isRunning, buttonVars, notificationsEnabled, notifVars,
                   metricVars, loopVars, trackerVars, currentUser, storeVars,
                   historyVars, endVars, dashboard, lastNotificationTime,
                   notificationSupported, handled>>

\* Outcome with lastNotificationTime stamped before show() is called, so
\* that a show() that throws consumes the cooldown as well.
OutcomeStampsBeforeShow(at, last, supported, result) ==
    IF at - last > NOTIFICATION_COOLDOWN
    THEN IF ~supported THEN [did |-> "fallback", by |-> "unsupported", last |-> last]
         ELSE IF result = "shown" THEN [did |-> "native", by |-> result, last |-> at]
         ELSE IF result = "showThrows" THEN [did |-> "fallback", by |-> result, last |-> at]
         ELSE [did |-> "fallback", by |-> result, last |-> last]
    ELSE [did |-> "skipped", by |-> "cooldown", last |-> last]

\* What the handler does with a request it handles at `at`, with
\* lastNotificationTime = last: skipped inside the cooldown; the browser
\* fallback when the platform has no notifications, when the constructor
\* throws (the renderer's 'notification-failed' listener falls back) and when
\* show() throws; the native notification otherwise, which alone stamps
\* lastNotificationTime.  `by` is what decided it.
Outcome(at, last, supported, result) ==
    IF at - last > NOTIFICATION_COOLDOWN
    THEN IF ~supported THEN [did |-> "fallback", by |-> "unsupported", last |-> last]
         ELSE IF result = "shown" THEN [did |-> "native", by |-> result, last |-> at]
         ELSE [did |-> "fallback", by |-> result, last |-> last]
    ELSE [did |-> "skipped", by |-> "cooldown", last |-> last]

\* The main process handles the oldest request in flight; `result` is what
\* the native notification does if it gets that far.
showNotification(result) ==
    /\ ipcQueue # <<>>
    /\ LET request == Head(ipcQueue)
           outcome == Outcome(now, lastNotificationTime, notificationSupported, result)
       IN  /\ lastNotificationTime' = outcome.last
           /\ handled' = Append(handled, [title |-> request.title,
                                          at |-> now,
                                          did |-> outcome.did,
                                          by |-> outcome.by])
    /\ ipcQueue' = Tail(ipcQueue)
    /\ UNCHANGED <<now, isRunning, buttonVars, notificationsEnabled, notifVars,
                   metricVars, loopVars, trackerVars, currentUser, storeVars,
                   historyVars, endVars, dashboard, notificationSupported>>

NotificationResults == {"shown", "showThrows", "createThrows"}

(***************************************************************************)
(* The environment: what the model returns, and how the clock advances.    *)
(***************************************************************************)
\* model.predict(): one entry per class, in the order of the model's labels.
Prediction(good, bad, leaning) ==
    <<[className |-> Good, probability |-> good],
      [className |-> Bad, probability |-> bad],
      [className |-> Leaning, probability |-> leaning]>>

Frame(good, bad, leaning, keypoints) ==
    [prediction |-> Prediction(good, bad, leaning), keypoints |-> keypoints]

BadAt70 == Frame(20, 70, 10, <<90, 20>>)
BadAt60 == Frame(30, 60, 10, <<90, 20>>)
GoodAt70 == Frame(70, 20, 10, <<90, 20>>)
GoodAt60 == Frame(60, 30, 10, <<90, 20>>)
LeaningAt70 == Frame(10, 20, 70, <<90, 20>>)
BadAt90 == Frame(5, 90, 5, <<90, 20>>)

GoodAt40 == Frame(40, 30, 30, <<90, 20>>)
GoodAt50 == Frame(50, 30, 20, <<90, 90>>)
GoodAt80 == Frame(80, 10, 10, <<90, 20>>)
NotifyFrames == {BadAt70, GoodAt70, LeaningAt70}
NotifyTicks == {5000, 6000}
SessionFrames == {GoodAt70, BadAt70}
SessionTicks == {15000, 30000}
ScenarioFrames == {BadAt70, BadAt90}
ScenarioTicks == {2000, 3000}
StoreFrames == {BadAt70, GoodAt70}
StoreTicks == {30000}
LoopFrames == {BadAt70}
ThresholdFrames == {BadAt90, GoodAt80, BadAt70, GoodAt50, GoodAt40}
WarmFrames == {BadAt90, GoodAt40}
ReadingFrames == {BadAt70, BadAt60, GoodAt70, GoodAt60, LeaningAt70}
EngineFrames == {BadAt70, BadAt60, GoodAt60, LeaningAt70}
MainFrames == {BadAt70}
CooldownFrames == {BadAt70}
MainTicks == {5000, 6000}

(***************************************************************************)
(* SpecNotify: one user, every kind of frame, a clock in seconds; no        *)
(* session lasts long enough to be saved.                                  *)
(***************************************************************************)
NextNotify ==
    \/ handleRegister("u1")
    \/ handleLogin("u1")
    \/ handleLogout
    \/ ClickStart(1)
    \/ CameraReady
    \/ CameraFailed
    \/ ClickStop
    \/ ToggleNotifications
    \/ TimerFires
    \/ InferenceRejects
    \/ NoPose
    \/ \E frame \in NotifyFrames : Classified(frame, MaxNotifyFrames)
    \/ \E ms \in NotifyTicks : Tick(ms, MaxNotifySeconds * 1000)

SpecNotify == Init /\ [][NextNotify]_vars

(***************************************************************************)
(* SpecSession: one user, sessions of up to a few minutes, a clock in      *)
(* quarter minutes.                                                        *)
(***************************************************************************)
NextSession ==
    \/ handleRegister("u1")
    \/ handleLogin("u1")
    \/ handleLogout
    \/ ClickStart(1)
    \/ CameraReady
    \/ CameraFailed
    \/ ClickStop
    \/ TimerFires
    \/ InferenceRejects
    \/ NoPose
    \/ \E frame \in SessionFrames : Classified(frame, MaxSessionFrames)
    \/ \E ms \in SessionTicks : Tick(ms, MaxSessionQuarters * 15000)

\* The notifications checkbox is left unticked.
InitSession == Init /\ ~notificationsEnabled

SpecSession == InitSession /\ [][NextSession]_vars

(***************************************************************************)
(* SpecScenario: notifications on, every frame a confident Bad posture, a  *)
(* clock in seconds.                                                       *)
(***************************************************************************)
InitScenario == Init /\ notificationsEnabled

NextScenario ==
    \/ handleRegister("u1")
    \/ ClickStart(1)
    \/ CameraReady
    \/ ClickStop
    \/ TimerFires
    \/ \E frame \in ScenarioFrames : Classified(frame, MaxScenarioFrames)
    \/ \E ms \in ScenarioTicks : Tick(ms, MaxScenarioSeconds * 1000)

SpecScenario == InitScenario /\ [][NextScenario]_vars

(***************************************************************************)
(* SpecReadings: notifications off, every kind of frame, a clock that      *)
(* stands still.                                                           *)
(***************************************************************************)
NextReadings ==
    \/ handleRegister("u1")
    \/ ClickStart(1)
    \/ CameraReady
    \/ ClickStop
    \/ TimerFires
    \/ NoPose
    \/ \E frame \in ReadingFrames : Classified(frame, MaxReadingFrames)

SpecReadings == InitSession /\ [][NextReadings]_vars

(***************************************************************************)
(* SpecStore: one user, notifications on or off, sessions of up to a       *)
(* minute and a half, a clock in half minutes.                             *)
(***************************************************************************)
NextStore ==
    \/ handleRegister("u1")
    \/ handleLogin("u1")
    \/ handleLogout
    \/ ClickStart(1)
    \/ CameraReady
    \/ ClickStop
    \/ TimerFires
    \/ \E frame \in StoreFrames : Classified(frame, MaxStoreFrames)
    \/ \E ms \in StoreTicks : Tick(ms, MaxStoreHalves * 30000)

SpecStore == Init /\ [][NextStore]_vars

(***************************************************************************)
(* SpecLoop: the detection loop under Start and Stop clicks that come      *)
(* while a startCamera call, a cycle or a timer is still pending;          *)
(* notifications off, a clock that stands still.  SpecLoopFair adds what   *)
(* the event loop guarantees: a timer that is due fires, and an inference  *)
(* that was awaited settles.                                               *)
(***************************************************************************)
InferenceSettles ==
    \/ InferenceRejects
    \/ NoPose
    \/ \E frame \in LoopFrames : Classified(frame, MaxLoopFrames)

NextLoop ==
    \/ handleRegister("u1")
    \/ ClickStart(MaxLoops)
    \/ CameraReady
    \/ CameraFailed
    \/ ClickStop
    \/ TimerFires
    \/ InferenceSettles

SpecLoop == InitSession /\ [][NextLoop]_vars

SpecLoopFair == SpecLoop /\ WF_vars(TimerFires) /\ WF_vars(InferenceSettles)

(***************************************************************************)
(* SpecCooldown: confident Bad frames only, before, during and after the   *)
(* cooldown of a firing; the checkbox ticked or not.                       *)
(***************************************************************************)
NextCooldown ==
    \/ handleRegister("u1")
    \/ ClickStart(1)
    \/ CameraReady
    \/ ClickStop
    \/ ToggleNotifications
    \/ TimerFires
    \/ \E frame \in CooldownFrames : Classified(frame, MaxCooldownFrames)
    \/ \E ms \in NotifyTicks : Tick(ms, MaxCooldownSeconds * 1000)

SpecCooldown == Init /\ [][NextCooldown]_vars

(***************************************************************************)
(* SpecRestart: Start clicked again while the camera is being set up, so   *)
(* that a second startCamera call resumes after a Stop and enables the     *)
(* Stop button with no session; sessions long enough to be stored.         *)
(***************************************************************************)
NextRestart ==
    \/ handleRegister("u1")
    \/ handleLogin("u1")
    \/ handleLogout
    \/ ClickStart(MaxLoops)
    \/ CameraReady
    \/ ClickStop
    \/ TimerFires
    \/ NoPose
    \/ \E ms \in StoreTicks : Tick(ms, MaxRestartHalves * 30000)

SpecRestart == InitSession /\ [][NextRestart]_vars

(***************************************************************************)
(* SpecMain: the renderer and the main process.  The checkbox is ticked,   *)
(* every frame is a confident Bad one, the user starts the camera and      *)
(* clicks Test Notification, and the main process handles the requests     *)
(* some time after they were sent, on a platform with or without native    *)
(* notifications.                                                          *)
(***************************************************************************)
InitMain == \E supported \in BOOLEAN : InitOn(supported) /\ notificationsEnabled

NextMain ==
    \/ handleRegister("u1")
    \/ ClickStart(1)
    \/ CameraReady
    \/ TimerFires
    \/ \E frame \in MainFrames : Classified(frame, MaxMainFrames)
    \/ \E ms \in MainTicks : Tick(ms, MaxMainSeconds * 1000)
    \/ testNotification
    \/ \E result \in NotificationResults : showNotification(result)

SpecMain == InitMain /\ [][NextMain]_vars

(***************************************************************************)
(* SpecEngine: the checkbox ticked or not, confident Bad frames among      *)
(* frames the engine is to ignore, a clock that stands still.              *)
(***************************************************************************)
NextEngine ==
    \/ handleRegister("u1")
    \/ ClickStart(1)
    \/ CameraReady
    \/ ClickStop
    \/ ToggleNotifications
    \/ TimerFires
    \/ \E frame \in EngineFrames : Classified(frame, MaxEngineFrames)

SpecEngine == Init /\ [][NextEngine]_vars

(***************************************************************************)
(* SpecThreshold: the accuracy metrics late in a run.  It begins where the *)
(* camera has classified some thirty frames of one kind since Start        *)
(* (notifications off, nothing else done), and goes on with frames of      *)
(* every confidence, the checkbox ticked or not.  What k frames of one kind leave behind is written    *)
(* out directly, k applications of the operators of one frame.             *)
(***************************************************************************)
\* k applications of AdaptedThreshold with one confidence.
ThresholdAfter(threshold, confidence, k) ==
    IF confidence > 80 THEN Min(threshold + k, Max(threshold, 90))
    ELSE IF confidence < 50 THEN Max(threshold - k, Min(threshold, 30))
    ELSE threshold

\* k applications of Pushed with one value to an empty history.
HistoryAfter(value, k) == [i \in 1..Min(k, HistoryLimit) |-> value]

\* k applications of WithReading with one reading to a new session.
SessionAfter(session, postureClass, confidence, k) ==
    LET good == IF IsGoodReading(postureClass, confidence) THEN k ELSE 0
    IN  [session EXCEPT !.totalReadings = k,
                        !.confidence = [i \in 1..k |-> confidence],
                        !.goodPostureReadings = good,
                        !.goodPosturePercentage =
                            IF k = 0 THEN @ ELSE Percentage(good, k)]

\* The session a Start click at page load opens.
SessionAtLoad ==
    [timestamp |-> Epoch, duration |-> 0, totalReadings |-> 0,
     goodPostureReadings |-> 0, goodPosturePercentage |-> <<0, 1>>,
     confidence |-> <<>>]

\* Register, Start, camera ready, then k cycles that classify `frame`, the
\* timer of the last one fired.
AfterFrames(frame, k) ==
    LET top == Highest(frame.prediction)
    IN  /\ now = Epoch
        /\ isRunning = TRUE
        /\ startBtnDisabled = TRUE
        /\ stopBtnDisabled = FALSE
        /\ notificationsEnabled = FALSE
        /\ lastBadPostureNotification = 0
        /\ consecutiveBadPostureCount = 0
        /\ poseQualityHistory = HistoryAfter(PoseQuality(frame.keypoints), k)
        /\ consistencyHistory = HistoryAfter(top.maxProb, k)
        /\ adaptiveThreshold = ThresholdAfter(60, top.maxProb, k)
        /\ startsPending = 0
        /\ cyclesAwaiting = 1
        /\ timersPending = 0
        /\ currentSession = SessionAfter(SessionAtLoad, top.predictedClass, top.maxProb, k)
        /\ postureReadings =
                [i \in 1..k |-> [posture |-> top.predictedClass, confidence |-> top.maxProb]]
        /\ sessionStartTime = Epoch
        /\ currentUser = "u1"
        /\ users = ("u1" :> NewPostureData)
        /\ localStorage = [postureUsers |-> users,
                           currentPostureUser |-> StoredUser("u1", NewPostureData)]
        /\ alerts = <<>>
        /\ badSinceReset = IF QualifyingBad(top.predictedClass, top.maxProb) THEN k ELSE 0
        /\ frames = k
        /\ observed = HistoryAfter([posture |-> top.predictedClass,
                                    confidence |-> top.maxProb], k)
        /\ staleTimers = 0
        /\ lastEnd = "none"
        /\ dashboard = Null
        /\ ipcQueue = <<>>
        /\ lastNotificationTime = 0
        /\ notificationSupported = TRUE
        /\ handled = <<>>

InitThreshold ==
    \E frame \in WarmFrames, k \in (MaxWarmFrames - MaxThresholdFrames)..MaxWarmFrames :
        AfterFrames(frame, k)

NextThreshold ==
    \/ ClickStop
    \/ ToggleNotifications
    \/ TimerFires
    \/ \E frame \in ThresholdFrames :
            Classified(frame, MaxWarmFrames + MaxThresholdFrames)

SpecThreshold == InitThreshold /\ [][NextThreshold]_vars

(***************************************************************************)
(* SpecImprovement: the page is loaded with an account in localStorage     *)
(* that is logged in and holds up to MaxStoredSessions sessions of one     *)
(* minute from earlier visits, saved one after the other; the user opens    *)
(* the dashboard, or logs out.                                             *)
(***************************************************************************)
StoredPercentages == {0, 25, 100}

\* A session of four readings, `percentage` percent of them good, started in
\* minute `minute` and ended a minute later.
StoredSession(minute, percentage) ==
    [timestamp |-> minute * 60000, duration |-> 1, totalReadings |-> 4,
     goodPostureReadings |-> percentage \div 25,
     goodPosturePercentage |-> Percentage(percentage \div 25, 4),
     confidence |-> <<70, 70, 70, 70>>]

\* The postureData after the sessions of the given percentages were saved.
RECURSIVE DataAfter(_)
DataAfter(percentages) ==
    IF percentages = <<>> THEN NewPostureData
    ELSE LET n == Len(percentages)
         IN  SavedData(DataAfter(SubSeq(percentages, 1, n - 1)),
                       StoredSession(n, percentages[n]))

InitImprovement ==
    \E n \in 0..MaxStoredSessions : \E percentages \in [1..n -> StoredPercentages] :
        /\ now = Epoch + MaxStoredSessions * 60000 + 60000
        /\ isRunning = FALSE
        /\ startBtnDisabled = FALSE
        /\ stopBtnDisabled = TRUE
        /\ notificationsEnabled = TRUE
        /\ lastBadPostureNotification = 0
        /\ consecutiveBadPostureCount = 0
        /\ poseQualityHistory = <<>>
        /\ consistencyHistory = <<>>
        /\ adaptiveThreshold = 60
        /\ startsPending = 0
        /\ cyclesAwaiting = 0
        /\ timersPending = 0
        /\ currentSession = Null
        /\ postureReadings = <<>>
        /\ sessionStartTime = NoTime
        /\ currentUser = "u1"
        /\ users = ("u1" :> DataAfter(percentages))
        /\ localStorage = [postureUsers |-> users,
                           currentPostureUser |-> StoredUser("u1", users["u1"])]
        /\ alerts = <<>>
        /\ badSinceReset = 0
        /\ frames = 0
        /\ observed = <<>>
        /\ staleTimers = 0
        /\ lastEnd = "none"
        /\ dashboard = Null
        /\ ipcQueue = <<>>
        /\ lastNotificationTime = 0
        /\ notificationSupported = TRUE
        /\ handled = <<>>

NextImprovement ==
    \/ loadDashboardData
    \/ handleLogout

SpecImprovement == InitImprovement /\ [][NextImprovement]_vars

(***************************************************************************)
(* SpecInsights: the page is loaded at noon of the tenth day with an        *)
(* account in localStorage that is logged in and holds up to               *)
(* MaxInsightSessions sessions of one minute from the days before, saved   *)
(* one after the other; the user opens the dashboard, logs out, logs in.   *)
(***************************************************************************)
MsPerHour == MsPerDay \div 24

DashboardNow == 9 * MsPerDay + 12 * MsPerHour

\* When the stored sessions began: a little more than seven days ago,
\* seven days ago to the millisecond, early on the first day of the chart,
\* late yesterday, and an hour ago.
StoredInstants ==
    {DashboardNow - 7 * MsPerDay - MsPerHour,
     DashboardNow - 7 * MsPerDay,
     DashboardNow - 7 * MsPerDay + 13 * MsPerHour,
     DashboardNow - 13 * MsPerHour,
     DashboardNow - MsPerHour}

InsightPercentages == {0, 85, 100}

\* A session of twenty readings, `percentage` percent of them good, begun at
\* `timestamp` and ended a minute later.
StoredSessionAt(timestamp, percentage) ==
    [timestamp |-> timestamp, duration |-> 1, totalReadings |-> 20,
     goodPostureReadings |-> percentage \div 5,
     goodPosturePercentage |-> Percentage(percentage \div 5, 20),
     confidence |-> [i \in 1..20 |-> 70]]

\* The postureData after the sessions of `stored` were saved, the i-th begun
\* two minutes after the (i-1)-th could have begun.
RECURSIVE InsightData(_)
InsightData(stored) ==
    IF stored = <<>> THEN NewPostureData
    ELSE LET n == Len(stored)
         IN  SavedData(InsightData(SubSeq(stored, 1, n - 1)),
                       StoredSessionAt(stored[n][1] + (n - 1) * 120000, stored[n][2]))

InitInsights ==
    \E n \in 0..MaxInsightSessions :
        \E stored \in [1..n -> StoredInstants \X InsightPercentages] :
            /\ \A i \in 1..(n - 1) : stored[i][1] <= stored[i + 1][1]
            /\ now = DashboardNow
            /\ isRunning = FALSE
            /\ startBtnDisabled = FALSE
            /\ stopBtnDisabled = TRUE
            /\ notificationsEnabled = TRUE
            /\ lastBadPostureNotification = 0
            /\ consecutiveBadPostureCount = 0
            /\ poseQualityHistory = <<>>
            /\ consistencyHistory = <<>>
            /\ adaptiveThreshold = 60
            /\ startsPending = 0
            /\ cyclesAwaiting = 0
            /\ timersPending = 0
            /\ currentSession = Null
            /\ postureReadings = <<>>
            /\ sessionStartTime = NoTime
            /\ currentUser = "u1"
            /\ users = ("u1" :> InsightData(stored))
            /\ localStorage = [postureUsers |-> users,
                               currentPostureUser |-> StoredUser("u1", users["u1"])]
            /\ alerts = <<>>
            /\ badSinceReset = 0
            /\ frames = 0
            /\ observed = <<>>
            /\ staleTimers = 0
            /\ lastEnd = "none"
            /\ dashboard = Null
            /\ ipcQueue = <<>>
            /\ lastNotificationTime = 0
            /\ notificationSupported = TRUE
            /\ handled = <<>>

NextInsights ==
    \/ loadDashboardData
    \/ handleLogout
    \/ handleLogin("u1")

SpecInsights == InitInsights /\ [][NextInsights]_vars

(***************************************************************************)
(* The claims.                                                             *)
(***************************************************************************)
\* The alerts sent since the camera was last stopped.
CurrentAlerts == SelectSeq(alerts, LAMBDA a : a.sinceStop)

\* C1: any two alerts the engine fires in one camera run (no stopCamera between
\* them, which resets the engine) are more than notificationCooldown apart.
C1_CooldownBetweenAlerts ==
    \A i, j \in DOMAIN CurrentAlerts :
        i < j => CurrentAlerts[j].at - CurrentAlerts[i].at > notificationCooldown

\* Two alerts were fired in the same camera run.
C1_Witness == Len(CurrentAlerts) = 2

\* C2 as stated: every alert is fired by an observation that is at least the
\* notificationThreshold-th qualifying Bad observation since the most recent
\* qualifying Good observation, firing or camera stop.
C2_FiresOnlyAfterThreshold ==
    \A i \in DOMAIN alerts : alerts[i].qualifying >= notificationThreshold

C4_StartWhenActiveIsNoOp ==
    [][(Active /\ ClickStart(1)) => UNCHANGED trackerVars]_vars

\* C5: in an Active session every reading adds 1 to totalReadings, adds 1 to
\* goodPostureReadings exactly when the class is Good posture with confidence
\* above 0.6, and leaves goodPosturePercentage = goodPostureReadings /
\* totalReadings * 100, a value between 0 and 100; 40 good readings of 50
\* give 80.
C5_ReadingCounts ==
    [][\A frame \in ReadingFrames :
        (Active /\ Classified(frame, MaxReadingFrames)) =>
            LET top == Highest(frame.prediction)
                counted == top.predictedClass = Good /\ top.maxProb > 60
                total == currentSession'.totalReadings
                good == currentSession'.goodPostureReadings
                pct == currentSession'.goodPosturePercentage
            IN  /\ total = currentSession.totalReadings + 1
                /\ good = currentSession.goodPostureReadings + (IF counted THEN 1 ELSE 0)
                /\ pct[2] > 0
                /\ pct[1] * total = good * 100 * pct[2]
                /\ 0 <= pct[1] /\ pct[1] <= 100 * pct[2]
                /\ Percentage(40, 50) = <<80, 1>>]_vars

\* Five readings were taken, four of them good: 80 percent.
C5_Witness ==
    /\ Active
    /\ currentSession.totalReadings = 5
    /\ currentSession.goodPostureReadings = 4
    /\ currentSession.goodPosturePercentage = <<80, 1>>
    /\ \E i \in DOMAIN postureReadings :
            postureReadings[i] = [posture |-> Good, confidence |-> 60]

\* C6: with no session, a reading and an end of session (by Stop or by
\* logout) leave the tracker without a session, its log and start time as
\* they were, and the stored statistics of every user unchanged.
C6_IdleNoOps ==
    [][(~Active /\ (\/ ClickStop
                    \/ handleLogout
                    \/ \E frame \in SessionFrames : Classified(frame, MaxSessionFrames)))
        => /\ currentSession' = Null
           /\ postureReadings' = postureReadings
           /\ sessionStartTime' = sessionStartTime
           /\ users' = users
           /\ localStorage'.postureUsers = localStorage.postureUsers]_vars

\* A frame was classified after the camera was stopped, with no session.
C6_Witness ==
    /\ ~Active
    /\ frames >= 1
    /\ stopBtnDisabled
    /\ currentUser # NoUser

\* The whole number of minutes nearest to ms milliseconds, the half counted
\* upwards.
NearestMinute(ms) ==
    CHOOSE d \in 0..(ms \div 60000 + 1) :
        60000 * (2 * d - 1) <= 2 * ms /\ 2 * ms < 60000 * (2 * d + 1)

C8_ShortSessionDiscarded ==
    [][(Active /\ now - sessionStartTime = 45000 /\ (ClickStop \/ handleLogout))
        => users' = users /\ localStorage'.postureUsers = localStorage.postureUsers]_vars

\* C9: for every user, no stored session has a duration below 1, and
\* totalSessions is the number of stored sessions.
C9_StoredSessions ==
    \A user \in DOMAIN users :
        LET data == users[user]
        IN  /\ \A i \in DOMAIN data.sessions : data.sessions[i].duration >= 1
            /\ data.totalSessions = Len(data.sessions)
            /\ localStorage.postureUsers[user] = data

\* Two sessions are stored and counted, and the tracker has no session.
C9_Witness ==
    /\ currentUser # NoUser
    /\ ~Active
    /\ Len(users[currentUser].sessions) = 2
    /\ users[currentUser].totalSessions = 2

\* The product of the denominators of the sessions' percentages.
RECURSIVE DenominatorProduct(_)
DenominatorProduct(sessions) ==
    IF sessions = <<>> THEN 1
    ELSE Head(sessions).goodPosturePercentage[2] * DenominatorProduct(Tail(sessions))

\* The sum of the sessions' percentages, in units of 1 / scale.
RECURSIVE ScaledTotal(_, _)
ScaledTotal(sessions, scale) ==
    IF sessions = <<>> THEN 0
    ELSE LET pct == Head(sessions).goodPosturePercentage
         IN  pct[1] * (scale \div pct[2]) + ScaledTotal(Tail(sessions), scale)

\* C10: for every user with N >= 1 stored sessions, avgGoodPosture is the sum
\* of the goodPosturePercentage of all N sessions divided by N.
C10_AverageIsMean ==
    \A user \in DOMAIN users :
        LET data == users[user]
            N == Len(data.sessions)
            scale == DenominatorProduct(data.sessions)
            avg == data.avgGoodPosture
        IN  N >= 1 => /\ avg[2] > 0
                      /\ avg[1] * N * scale = ScaledTotal(data.sessions, scale) * avg[2]

\* Three sessions were stored, with 0, 50 and 100 percent of good posture.
C10_Witness ==
    /\ currentUser # NoUser
    /\ Len(users[currentUser].sessions) = 3
    /\ users[currentUser].sessions[1].goodPosturePercentage = <<0, 1>>
    /\ users[currentUser].sessions[2].goodPosturePercentage = <<50, 1>>
    /\ users[currentUser].sessions[3].goodPosturePercentage = <<100, 1>>
    /\ users[currentUser].avgGoodPosture = <<50, 1>>

\* C11: for every user, totalTime is the sum of the durations of all stored
\* sessions (0 for a user with none).
C11_TotalTimeIsSum ==
    \A user \in DOMAIN users :
        /\ users[user].totalTime = SumDuration(users[user].sessions)
        /\ localStorage.postureUsers[user].totalTime = users[user].totalTime

\* Two sessions of one minute each are stored: two minutes in total.
C11_Witness ==
    /\ currentUser # NoUser
    /\ Len(users[currentUser].sessions) = 2
    /\ users[currentUser].sessions[1].duration = 1
    /\ users[currentUser].sessions[2].duration = 1
    /\ users[currentUser].totalTime = 2

\* C12: when a session of duration >= 1 is ended with nobody logged in (the
\* logout clears the user before it stops the camera), no user's stored data
\* change, storage is left as the logout itself left it (currentPostureUser
\* removed, postureUsers untouched), and the tracker has no session.
C12_NoUserNoSave ==
    [][(/\ Active
        /\ NearestMinute(now - sessionStartTime) >= 1
        /\ handleLogout)
        => /\ users' = users
           /\ localStorage' = [localStorage EXCEPT !.currentPostureUser = Null]
           /\ currentSession' = Null
           /\ postureReadings' = <<>>
           /\ sessionStartTime' = NoTime]_vars

\* A session long enough to be kept was ended by a logout, and the account
\* still has no session.
C12_Witness ==
    /\ lastEnd = "nouser"
    /\ currentUser = NoUser
    /\ ~Active
    /\ \E email \in DOMAIN users : users[email].sessions = <<>>

\* The step stores the session of `email`: an Active session of duration >= 1
\* is ended, exactly that session is appended, and totalSessions, totalTime
\* and avgGoodPosture are those of the new list.
StoresSession(email) ==
    LET duration == NearestMinute(now - sessionStartTime)
        data == users'[email]
        scale == DenominatorProduct(data.sessions)
    IN  /\ Active
        /\ currentSession' = Null
        /\ currentUser = email
        /\ duration >= 1
        /\ data.sessions = Append(users[email].sessions,
                                  [currentSession EXCEPT !.duration = duration])
        /\ data.totalSessions = Len(data.sessions)
        /\ data.totalTime = SumDuration(data.sessions)
        /\ data.avgGoodPosture[1] * Len(data.sessions) * scale
                = ScaledTotal(data.sessions, scale) * data.avgGoodPosture[2]
        /\ data.weeklyGoal = users[email].weeklyGoal

\* C13: the stored statistics of a user change only in a step that ends an
\* Active session of duration >= 1 for that user, and then by the append of
\* that one session with all three aggregates recomputed; the copy in
\* postureUsers changes only with them.  Every other step (start, reading,
\* notification, login, logout, an end that discards) leaves them unchanged.
C13_StatsChangeOnlyBySave ==
    [][/\ \A email \in DOMAIN users :
            /\ email \in DOMAIN users'
            /\ users'[email] # users[email] => StoresSession(email)
       /\ localStorage'.postureUsers # localStorage.postureUsers
            => localStorage'.postureUsers = users']_vars

\* A session with two readings and an alert, started some time after the page
\* was loaded, was stored.
C13_Witness ==
    /\ lastEnd = "saved"
    /\ Len(alerts) = 1
    /\ currentUser # NoUser
    /\ Len(users[currentUser].sessions) = 1
    /\ users[currentUser].sessions[1].totalReadings = 2
    /\ users[currentUser].sessions[1].timestamp > Epoch

\* C14 as stated: at any time at most one detection cycle is in flight
\* (suspended on its inference) and at most one next cycle is scheduled.
C14_OneCycleInFlight ==
    cyclesAwaiting <= 1 /\ timersPending <= 1

\* C15 as stated: a timer set before the last stopCamera never starts a
\* detection cycle when it fires, whether or not the camera runs again.
C15_StaleTimerStartsNoCycle ==
    [][(TimerFires /\ staleTimers > 0) => cyclesAwaiting' = cyclesAwaiting]_vars

\* The camera runs and no cycle is in flight or scheduled: the one cycle of
\* the loop was aborted by a rejected inference.
LoopAborted == isRunning /\ cyclesAwaiting = 0 /\ timersPending = 0

\* C16 as stated: after an inference rejects while the camera runs, a later
\* detection cycle is eventually started, unless the user stops the camera.
C16_LoopContinuesAfterRejection ==
    LoopAborted ~> (cyclesAwaiting > 0 \/ ~isRunning)

\* C17: a detection cycle that finds no pose, or whose inference rejects,
\* records no reading and leaves the bad posture count, the time of the last
\* notification, both histories, the adaptive threshold, the session with its
\* counters and the stored statistics unchanged.
C17_NoSignalChangesNothing ==
    [][(NoPose \/ InferenceRejects)
        => /\ postureReadings' = postureReadings
           /\ currentSession' = currentSession
           /\ consecutiveBadPostureCount' = consecutiveBadPostureCount
           /\ lastBadPostureNotification' = lastBadPostureNotification
           /\ poseQualityHistory' = poseQualityHistory
           /\ consistencyHistory' = consistencyHistory
           /\ adaptiveThreshold' = adaptiveThreshold
           /\ alerts' = alerts
           /\ users' = users]_vars

\* The camera runs with a session, no frame was classified since the last
\* stop, and a cycle that found no pose has set its timer.
C17_Witness ==
    /\ isRunning
    /\ Active
    /\ timersPending = 1
    /\ frames = 0
    /\ currentSession.totalReadings = 0
    /\ poseQualityHistory = <<>>

\* C18: when stopCamera returns (after a Stop click or a logout), the bad
\* posture count is 0 and the time of the last notification is 0, its initial
\* value, whatever was observed before.
C18_StopResetsEngine ==
    [][(ClickStop \/ handleLogout)
        => /\ consecutiveBadPostureCount' = 0
           /\ lastBadPostureNotification' = 0]_vars

\* An alert was fired, the camera was then stopped, and the engine is back in
\* its initial state.
C18_Witness ==
    /\ ~isRunning
    /\ stopBtnDisabled
    /\ Len(alerts) >= 1
    /\ ~alerts[1].sinceStop
    /\ consecutiveBadPostureCount = 0
    /\ lastBadPostureNotification = 0

\* C19: the adaptive threshold is between 0.3 and 0.9 in every state; a
\* classified frame with confidence above 0.8 raises it by 0.01, to 0.9 at
\* most, one with confidence below 0.5 lowers it by 0.01, to 0.3 at least,
\* any other leaves it unchanged; stopCamera sets it back to 0.6.
C19_AdaptiveThreshold ==
    [][/\ 30 <= adaptiveThreshold /\ adaptiveThreshold <= 90
       /\ 30 <= adaptiveThreshold' /\ adaptiveThreshold' <= 90
       /\ ClickStop => adaptiveThreshold' = 60
       /\ \A frame \in ThresholdFrames :
            Classified(frame, MaxWarmFrames + MaxThresholdFrames) =>
                LET confidence == Highest(frame.prediction).maxProb
                IN  /\ (confidence > 80 /\ adaptiveThreshold < 90)
                            => adaptiveThreshold' = adaptiveThreshold + 1
                    /\ (confidence > 80 /\ adaptiveThreshold = 90)
                            => adaptiveThreshold' = 90
                    /\ (confidence < 50 /\ adaptiveThreshold > 30)
                            => adaptiveThreshold' = adaptiveThreshold - 1
                    /\ (confidence < 50 /\ adaptiveThreshold = 30)
                            => adaptiveThreshold' = 30
                    /\ (50 <= confidence /\ confidence <= 80)
                            => adaptiveThreshold' = adaptiveThreshold]_vars

\* The threshold is at its cap after more confident frames than it takes to
\* get there, the last two of them past the cap.
C19_Witness ==
    /\ isRunning
    /\ adaptiveThreshold = 90
    /\ frames = MaxWarmFrames + MaxThresholdFrames
    /\ \A i \in DOMAIN consistencyHistory : consistencyHistory[i] = 90

\* `shown` is the improvement of `sessions`: 0 for three sessions or fewer
\* (fewer than 2, or nothing before the last three), else the integer nearest
\* (a half counted upwards) to the mean percentage of the last three sessions
\* minus the mean percentage of the up to three sessions before them.
IsImprovement(sessions, shown) ==
    LET n == Len(sessions)
        first == IF n - 5 > 1 THEN n - 5 ELSE 1
        m == n - 2 - first
        scale == DenominatorProduct(sessions)
        recent == ScaledTotal(SubSeq(sessions, n - 2, n), scale)
        previous == ScaledTotal(SubSeq(sessions, first, n - 3), scale)
        difference == m * recent - 3 * previous
        unit == 3 * m * scale
    IN  IF n <= 3 THEN shown = 0
        ELSE /\ (2 * shown - 1) * unit <= 2 * difference
             /\ 2 * difference < (2 * shown + 1) * unit

\* C20: the improvement the dashboard shows for the logged-in user's sessions
\* is 0 when there are fewer than 2 sessions or none before the last three,
\* and otherwise the rounded difference of the two window means, negative
\* when the recent mean is the lower one.
C20_Improvement ==
    dashboard # Null =>
        \A email \in DOMAIN users : IsImprovement(users[email].sessions, dashboard.improvement)

\* Five sessions, the two before the last three at 12.5 percent on average,
\* the last three at 0: the dashboard shows -12.
C20_Witness ==
    /\ dashboard # Null
    /\ dashboard.improvement = -12
    /\ \E email \in DOMAIN users : Len(users[email].sessions) = 5

\* The title of the performance insight for an average of p[1] / p[2] percent.
BandTitle(p) ==
    IF p[1] >= 85 * p[2] THEN "Excellent Posture!"
    ELSE IF p[1] >= 70 * p[2] THEN "Good Progress"
    ELSE IF p[1] >= 50 * p[2] THEN "Needs Attention"
    ELSE "Urgent Action Required"

\* C21: the insights the dashboard shows are, in this order, the one
\* performance insight of the band avgGoodPosture falls in (85 and more, 70
\* and more, 50 and more, less; 0 for an empty history), a trend insight if
\* and only if the improvement is above 10 or below -10, and a frequency
\* insight if and only if fewer than 3 sessions began in the last 7 days;
\* so there are between 1 and 3 of them, the performance insight first.
C21_Insights ==
    dashboard # Null =>
        \A email \in DOMAIN users :
            LET data == users[email]
                insights == dashboard.insights
                count == Len(insights)
                hasTrend == dashboard.improvement > 10 \/ dashboard.improvement < -10
                recent == {i \in DOMAIN data.sessions :
                                now - data.sessions[i].timestamp <= 7 * MsPerDay}
                hasFrequency == Cardinality(recent) < 3
            IN  /\ count = 1 + (IF hasTrend THEN 1 ELSE 0) + (IF hasFrequency THEN 1 ELSE 0)
                /\ count \in 1..3
                /\ insights[1].title = BandTitle(data.avgGoodPosture)
                /\ insights[1].type \in {"excellent", "good", "warning", "urgent"}
                /\ hasTrend =>
                        insights[2].title = IF dashboard.improvement > 10
                                            THEN "Great Improvement!" ELSE "Declining Trend"
                /\ hasFrequency => insights[count].title = "Monitor More Frequently"
                /\ IsImprovement(data.sessions, dashboard.improvement)

\* Four sessions, the average exactly 50 percent, the last three worse than
\* the first, and only two of them begun in the last seven days: all three
\* insights are shown.
C21_Witness ==
    /\ dashboard # Null
    /\ currentUser # NoUser
    /\ Len(users[currentUser].sessions) = 4
    /\ users[currentUser].avgGoodPosture = <<50, 1>>
    /\ Len(dashboard.insights) = 3
    /\ dashboard.insights[1].title = "Needs Attention"
    /\ dashboard.insights[2].title = "Declining Trend"
    /\ dashboard.insights[3].title = "Monitor More Frequently"

\* C22: the chart has exactly 7 entries, for the seven calendar days that end
\* today, the oldest first; the value of an entry is the mean
\* goodPosturePercentage of the sessions begun on its day, 0 when there is
\* none; a session begun before those seven days is counted in no entry.
C22_DailyAverages ==
    dashboard # Null =>
        \A email \in DOMAIN users :
            LET sessions == users[email].sessions
                chart == dashboard.chart
                today == LocalDay(now)
                OnDay(day) == SelectSeq(sessions, LAMBDA s : LocalDay(s.timestamp) = day)
                charted == {i \in DOMAIN sessions :
                                /\ LocalDay(sessions[i].timestamp) >= today - 6
                                /\ LocalDay(sessions[i].timestamp) <= today}
            IN  /\ DOMAIN chart = 1..7
                /\ \A i \in 1..7 :
                        LET entry == chart[i]
                            N == Len(OnDay(entry.date))
                            scale == DenominatorProduct(OnDay(entry.date))
                        IN  /\ entry.date = today - 7 + i
                            /\ entry.sessions = N
                            /\ N = 0 => entry.value = <<0, 1>>
                            /\ N >= 1 =>
                                    /\ entry.value[2] > 0
                                    /\ entry.value[1] * N * scale
                                            = ScaledTotal(OnDay(entry.date), scale) * entry.value[2]
                /\ chart[1].sessions + chart[2].sessions + chart[3].sessions
                        + chart[4].sessions + chart[5].sessions + chart[6].sessions
                        + chart[7].sessions = Cardinality(charted)

\* Four sessions: one begun eight calendar days ago, which no entry counts,
\* two begun late yesterday, at 85 and 100 percent, whose mean is yesterday's
\* value, and one today.
C22_Witness ==
    /\ dashboard # Null
    /\ currentUser # NoUser
    /\ Len(users[currentUser].sessions) = 4
    /\ LocalDay(users[currentUser].sessions[1].timestamp) = LocalDay(now) - 7
    /\ dashboard.chart[6].sessions = 2
    /\ dashboard.chart[6].value = <<185, 2>>
    /\ dashboard.chart[7].sessions = 1
    /\ \A i \in 1..5 : dashboard.chart[i].sessions = 0

\* The last n entries of a sequence, all of them when it has fewer.
LastOf(seq, n) == SubSeq(seq, Max(1, Len(seq) - n + 1), Len(seq))

\* The entries of a window of predictions that are of one class.
OfClass(window, class) == SelectSeq(window, LAMBDA entry : entry.posture = class)

\* The sum of the confidences of a window of predictions.
RECURSIVE SumConfidence(_)
SumConfidence(window) ==
    IF window = <<>> THEN 0 ELSE Head(window).confidence + SumConfidence(Tail(window))

\* C23 as stated: when some class occurs at least twice among the last three
\* predictions, the class handed on to the session tracker (the last entry of
\* its log) is that majority class, and the confidence handed on is the mean
\* confidence of the entries of that class in the window.
C23_SmoothedPrediction ==
    (Active /\ postureReadings # <<>>) =>
        LET window == LastOf(observed, 3)
            handed == postureReadings[Len(postureReadings)]
        IN  \A class \in {Good, Bad, Leaning} :
                LET entries == OfClass(window, class)
                IN  Len(entries) >= 2 =>
                        /\ handed.posture = class
                        /\ handed.confidence * Len(entries) = SumConfidence(entries)

\* The number of entries of the most frequent class in a window.
ModeCount(window) ==
    LET counts == {Len(OfClass(window, class)) : class \in {Good, Bad, Leaning, ""}}
    IN  CHOOSE count \in counts : \A other \in counts : other <= count

\* C24 as stated: after every observation the consistency value lies in
\* [0, 1]; it is 0.5 while the window holds fewer than 3 entries, and the
\* number of entries of the most frequent class divided by the length of the
\* window once it holds 3 or more.  The value is compared by its square.
C24_ConsistencyRatio ==
    consistencyHistory # <<>> =>
        LET square == calculateConsistency(consistencyHistory)
            length == Len(consistencyHistory)
            mode == ModeCount(LastOf(observed, length))
        IN  /\ square[1] >= 0
            /\ square[1] <= square[2]
            /\ length < 3 => square = <<1, 4>>
            /\ length >= 3 => square[1] * length * length = mode * mode * square[2]

\* A frame of `frameSet` is classified whose class and confidence satisfy Case.
ClassifiedAs(frameSet, maxFrames, Case(_, _)) ==
    \E frame \in frameSet :
        /\ Classified(frame, maxFrames)
        /\ Case(Highest(frame.prediction).predictedClass, Highest(frame.prediction).maxProb)

\* What C25 says of a step that observes a qualifying Bad frame.
CountsOrFires ==
    LET count == consecutiveBadPostureCount + 1
    IN  IF count >= 2 /\ now - lastBadPostureNotification > 10000
        THEN /\ lastBadPostureNotification' = now
             /\ consecutiveBadPostureCount' = 0
             /\ Len(alerts') = Len(alerts) + 1
        ELSE /\ lastBadPostureNotification' = lastBadPostureNotification
             /\ consecutiveBadPostureCount' = count
             /\ alerts' = alerts

IsQualifyingBad(class, confidence) == class = Bad /\ confidence > 60

\* C25 as stated: every observation of Bad posture with confidence above 0.6
\* adds 1 to the count and fires if and only if the new count is at least 2
\* and more than 10000 ms have passed since the last firing; a firing sets the
\* time of the last firing to now and the count to 0; without one the time
\* is unchanged and the new count is kept.
C25_QualifyingBadStep ==
    [][ClassifiedAs(NotifyFrames, MaxNotifyFrames, IsQualifyingBad) => CountsOrFires]_vars

\* C25 as amended: the same, of every such observation made while the
\* notifications checkbox is ticked.
C25_EnabledQualifyingBadStep ==
    [][(notificationsEnabled /\ ClassifiedAs(NotifyFrames, MaxNotifyFrames, IsQualifyingBad))
            => CountsOrFires]_vars

\* With the checkbox ticked a second alert has just been fired, one cooldown
\* and more after the first: the count is back to 0 and the time of the last
\* firing is now.
C25_Witness ==
    /\ notificationsEnabled
    /\ Len(CurrentAlerts) = 2
    /\ CurrentAlerts[2].at = now
    /\ lastBadPostureNotification = now
    /\ consecutiveBadPostureCount = 0
    /\ timersPending = 1

IsQualifyingGood(class, confidence) == class = Good /\ confidence > 60

\* C26 as stated: every observation of Good posture with confidence above 0.6
\* sets the count to 0, fires nothing and leaves the time of the last firing
\* unchanged, whatever the count was.
C26_QualifyingGoodStep ==
    [][ClassifiedAs(NotifyFrames, MaxNotifyFrames, IsQualifyingGood)
            => /\ consecutiveBadPostureCount' = 0
               /\ lastBadPostureNotification' = lastBadPostureNotification
               /\ alerts' = alerts]_vars

IsIgnored(class, confidence) == class = Leaning \/ confidence <= 60

\* C27: an observation of Leaning Forward at any confidence, or of Good or Bad
\* posture with confidence 0.6 or less, fires nothing and leaves the count
\* and the time of the last firing unchanged.
C27_IgnoredObservationStep ==
    [][ClassifiedAs(EngineFrames, MaxEngineFrames, IsIgnored)
            => /\ consecutiveBadPostureCount' = consecutiveBadPostureCount
               /\ lastBadPostureNotification' = lastBadPostureNotification
               /\ alerts' = alerts]_vars

\* With the checkbox ticked, a confident Bad frame was followed by two frames
\* the engine ignores, a Bad one at 0.6 among them: the count is still 1.
C27_Witness ==
    /\ notificationsEnabled
    /\ frames = 3
    /\ Len(observed) = 3
    /\ observed[1] = [posture |-> Bad, confidence |-> 70]
    /\ \E i \in 2..3 : observed[i] = [posture |-> Bad, confidence |-> 60]
    /\ \A i \in 2..3 : IsIgnored(observed[i].posture, observed[i].confidence)
    /\ consecutiveBadPostureCount = 1
    /\ alerts = <<>>

\* What a step that observes (class, confidence) does to the engine, as a
\* function of the engine's two variables, the checkbox, the clock and the
\* observation alone.
EngineStep(class, confidence) ==
    IF notificationsEnabled /\ IsQualifyingBad(class, confidence) THEN CountsOrFires
    ELSE /\ lastBadPostureNotification' = lastBadPostureNotification
         /\ alerts' = alerts
         /\ consecutiveBadPostureCount' =
                IF notificationsEnabled /\ IsQualifyingGood(class, confidence)
                THEN 0 ELSE consecutiveBadPostureCount

\* The same for the session tracker: a function of the session and the
\* observation alone.
TrackerStep(class, confidence) ==
    IF ~Active THEN UNCHANGED trackerVars
    ELSE /\ currentSession'.totalReadings = currentSession.totalReadings + 1
         /\ currentSession'.goodPostureReadings =
                currentSession.goodPostureReadings
                    + (IF IsQualifyingGood(class, confidence) THEN 1 ELSE 0)
         /\ currentSession'.goodPosturePercentage =
                Percentage(currentSession'.goodPostureReadings,
                           currentSession'.totalReadings)
         /\ currentSession'.confidence = Append(currentSession.confidence, confidence)
         /\ postureReadings' =
                Append(postureReadings, [posture |-> class, confidence |-> confidence])

\* C28: what an observation does to the notification engine (its two
\* variables and the alert sent), to the session's counters and to the stored
\* statistics is determined by their values before the step, the checkbox,
\* the clock and the observation, with 0.6 as the fixed confidence bound,
\* whatever value the adaptive threshold has reached; hence two runs fed the
\* same observations agree on all of them, however their adaptive
\* thresholds differ.
C28_ThresholdGatesNothing ==
    [][\A frame \in ThresholdFrames :
            Classified(frame, MaxWarmFrames + MaxThresholdFrames) =>
                LET top == Highest(frame.prediction)
                IN  /\ EngineStep(top.predictedClass, top.maxProb)
                    /\ TrackerStep(top.predictedClass, top.maxProb)
                    /\ users' = users
                    /\ localStorage' = localStorage]_vars

\* The adaptive threshold has fallen to its floor, far below 0.6, and with
\* the checkbox ticked a Good frame at 0.5, above the threshold, was not
\* counted as good posture, after Bad frames at 0.7 that fired an alert.
C28_Witness ==
    /\ adaptiveThreshold = 30
    /\ notificationsEnabled
    /\ Active
    /\ Len(observed) = HistoryLimit
    /\ observed[HistoryLimit] = [posture |-> Good, confidence |-> 50]
    /\ observed[HistoryLimit - 1] = [posture |-> Bad, confidence |-> 70]
    /\ currentSession.goodPostureReadings = 0
    /\ Len(CurrentAlerts) = 1

\* C29: neither the consistency history nor the pose quality history ever
\* holds more than 10 entries; a frame classified when they hold 10 drops the
\* oldest entry of each and appends its own; both are empty when stopCamera
\* returns.
C29_HistoriesBounded ==
    /\ [](Len(consistencyHistory) <= 10 /\ Len(poseQualityHistory) <= 10)
    /\ [][/\ \A frame \in ThresholdFrames :
                (/\ Classified(frame, MaxWarmFrames + MaxThresholdFrames)
                 /\ Len(consistencyHistory) = 10
                 /\ Len(poseQualityHistory) = 10)
                    => /\ consistencyHistory' =
                            Append(Tail(consistencyHistory),
                                   Highest(frame.prediction).maxProb)
                       /\ poseQualityHistory' =
                            Append(Tail(poseQualityHistory), PoseQuality(frame.keypoints))
          /\ ClickStop => (consistencyHistory' = <<>> /\ poseQualityHistory' = <<>>)]_vars

\* More than ten frames were classified and both histories hold ten entries,
\* the two newest different from each other and from the oldest.
C29_Witness ==
    /\ frames > HistoryLimit + 1
    /\ Len(consistencyHistory) = 10
    /\ Len(poseQualityHistory) = 10
    /\ consistencyHistory[1] = 90
    /\ consistencyHistory[9] = 70
    /\ consistencyHistory[10] = 50
    /\ poseQualityHistory[9] = <<1, 2>>
    /\ poseQualityHistory[10] = <<1, 1>>

\* stopCamera has returned and startCamera was not called since, nor is a
\* call of it still pending.
Stopped ==
    /\ lastEnd # "none"
    /\ ~Active
    /\ ~isRunning
    /\ startsPending = 0

\* C30 as stated: from the return of stopCamera to the next startCamera no
\* alert is sent, and the count and the time of the last firing stay 0, also
\* when a detection cycle was awaiting its inference at the stop and resumes
\* after it.
C30_QuietAfterStop ==
    Stopped => /\ consecutiveBadPostureCount = 0
               /\ lastBadPostureNotification = 0
               /\ CurrentAlerts = <<>>


(***************************************************************************)
(* The renderer and the main process.                                      *)
(***************************************************************************)
PostureRequests == {i \in DOMAIN handled : handled[i].title = "posture"}

\* C31: every posture alert the renderer's engine has fired, once the main
\* process has handled its request, was shown as a native notification or
\* handed to the browser fallback: none was skipped by the main process's
\* own cooldown.
C31_FiredAlertsDelivered ==
    \A i \in PostureRequests : handled[i].did \in {"native", "fallback"}

Natives == {i \in DOMAIN handled : handled[i].did = "native"}

\* C40: two native notifications are shown for requests handled more than
\* NOTIFICATION_COOLDOWN apart, and lastNotificationTime is the handling time
\* of the latest request whose show() returned, 0 when there is none:
\* requests skipped for the cooldown, an unsupported platform and a show()
\* or a constructor that throws leave it alone.
C40_NativeCooldown ==
    /\ \A i, j \in Natives :
           i < j => handled[j].at - handled[i].at > NOTIFICATION_COOLDOWN
    /\ lastNotificationTime =
           IF Natives = {} THEN 0
           ELSE handled[CHOOSE i \in Natives : \A j \in Natives : j <= i].at
    /\ \A i \in Natives : notificationSupported /\ handled[i].by = "shown"

\* A native notification, then a request skipped inside the cooldown and
\* one whose show() threw after it, and lastNotificationTime still the
\* handling time of the first.
C40_Witness ==
    /\ Len(handled) = 3
    /\ handled[1].did = "native"
    /\ handled[2].did = "skipped"
    /\ handled[3].did = "fallback"
    /\ handled[3].by = "showThrows"
    /\ lastNotificationTime = handled[1].at
    /\ handled[3].at - handled[1].at > NOTIFICATION_COOLDOWN

(***************************************************************************)
(* The engine across camera runs.                                          *)
(***************************************************************************)
\* C32: any two alerts the engine dispatches, in one camera run or in two
\* with a stopCamera and a startCamera between them, are more than
\* notificationCooldown apart.
C32_CooldownAcrossRuns ==
    \A i, j \in DOMAIN alerts :
        i < j => alerts[j].at - alerts[i].at > notificationCooldown

\* C33: a session is Active only while a startCamera call is suspended on
\* the webcam or the camera it started is running: a startCamera that failed
\* leaves the tracker Idle.
C33_ActiveOnlyWhileStarted ==
    Active => (startsPending > 0 \/ isRunning)

(***************************************************************************)
(* Logout and the session tracker.                                         *)
(***************************************************************************)
\* C34: a logout ends the session that is Active, whatever its duration, and
\* appends it to nobody's statistics: the tracker is Idle after it, nobody
\* is logged in, and every user's stored sessions and aggregates, in memory
\* and in postureUsers, are what they were before.
C34_LogoutStoresNothing ==
    [][handleLogout
        => /\ ~Active'
           /\ currentUser' = NoUser
           /\ users' = users
           /\ localStorage'.postureUsers = localStorage.postureUsers]_vars

\* The user has one stored session, and a second one, long enough to be
\* kept, was ended by the logout: the account still has one.
C34_Witness ==
    /\ lastEnd = "nouser"
    /\ currentUser = NoUser
    /\ \E email \in DOMAIN users :
           /\ Len(users[email].sessions) = 1
           /\ users[email].totalSessions = 1

\* C35: while a session is Active its good readings are between 0 and its
\* total readings, and its total readings are as many as the confidences it
\* has logged and as the entries of the tracker's reading log.
C35_SessionCountsAgree ==
    Active =>
        /\ 0 <= currentSession.goodPostureReadings
        /\ currentSession.goodPostureReadings <= currentSession.totalReadings
        /\ currentSession.totalReadings = Len(currentSession.confidence)
        /\ currentSession.totalReadings = Len(postureReadings)

\* The second session of the page has three readings, one of them good.
C35_Witness ==
    /\ Active
    /\ lastEnd # "none"
    /\ currentSession.totalReadings = 3
    /\ currentSession.goodPostureReadings = 1
    /\ Len(postureReadings) = 3

\* C36: a session is stored at most once.  A stopCamera (by Stop or by
\* logout) that follows an earlier one with no startSession between them,
\* that is with the tracker Idle, stores nothing and leaves every user's
\* sessions, totalSessions, totalTime and avgGoodPosture as they were; and
\* no user has two stored sessions with the same start timestamp.
C36_StoredAtMostOnce ==
    /\ [][((ClickStop \/ handleLogout) /\ lastEnd # "none" /\ ~Active)
            => /\ users' = users
               /\ localStorage'.postureUsers = localStorage.postureUsers
               /\ lastEnd' = "idle"]_vars
    /\ [](\A email \in DOMAIN users :
            \A i, j \in DOMAIN users[email].sessions :
                i < j => users[email].sessions[i].timestamp
                            # users[email].sessions[j].timestamp)

\* A session was stored by a Stop, and stopCamera ran once more, by Stop or
\* by a logout, with no session started in between: the account of the user
\* now logged in has one session.
C36_Witness ==
    /\ lastEnd = "idle"
    /\ currentUser # NoUser
    /\ ~Active
    /\ Len(users[currentUser].sessions) = 1
    /\ users[currentUser].totalSessions = 1

(***************************************************************************)
(* The engine during and after a cooldown.                                 *)
(***************************************************************************)
\* What C37 says of a step that observes a qualifying Bad frame when the
\* camera run has fired before, the last time at t, `since` being the
\* qualifying Bad observations since t that are taken into account, this
\* one included: inside the cooldown the count goes up by one, whatever it
\* is, and nothing fires; after it the observation fires when it is at least
\* the second, and the count is 0 after the firing.
AfterFiring(since) ==
    LET t == CurrentAlerts[Len(CurrentAlerts)].at
    IN  /\ now <= t + notificationCooldown
            => /\ consecutiveBadPostureCount' = consecutiveBadPostureCount + 1
               /\ alerts' = alerts
        /\ (now > t + notificationCooldown /\ since >= 2)
            => /\ Len(alerts') = Len(alerts) + 1
               /\ consecutiveBadPostureCount' = 0

\* C37 as stated: the count is never negative; of every qualifying Bad
\* observation that follows a firing of the camera run with no qualifying
\* Good observation or stop in between, AfterFiring holds with all the
\* qualifying Bad observations since the firing taken into account.
C37_CountDuringCooldown ==
    /\ [](consecutiveBadPostureCount >= 0)
    /\ [][(/\ CurrentAlerts # <<>>
           /\ ClassifiedAs(CooldownFrames, MaxCooldownFrames, IsQualifyingBad))
            => AfterFiring(badSinceReset + 1)]_vars

\* C37 as amended: the same of the observations made while the notifications
\* checkbox is ticked, those the engine has counted being the ones taken
\* into account.
C37_EnabledCountDuringCooldown ==
    /\ [](consecutiveBadPostureCount >= 0)
    /\ [][(/\ notificationsEnabled
           /\ CurrentAlerts # <<>>
           /\ ClassifiedAs(CooldownFrames, MaxCooldownFrames, IsQualifyingBad))
            => AfterFiring(consecutiveBadPostureCount + 1)]_vars

\* Three confident Bad frames were counted during the cooldown of the first
\* alert, one more than the threshold, and the fourth, the first after the
\* cooldown, has just fired: the count is 0 again.
C37_Witness ==
    /\ notificationsEnabled
    /\ Len(CurrentAlerts) = 2
    /\ CurrentAlerts[2].qualifying = 4
    /\ CurrentAlerts[2].at = now
    /\ CurrentAlerts[2].at - CurrentAlerts[1].at > notificationCooldown
    /\ consecutiveBadPostureCount = 0
    /\ frames = 6

AfterStop == lastEnd # "none" /\ ~Active

\* C39: after stopCamera, until startCamera is called again, at most one
\* cycle is in flight or one timer callback pending, no detection cycle is
\* started, and the loop terminates: eventually no cycle is in flight and no
\* callback is pending.
C39_LoopTerminatesAfterStop ==
    /\ [](AfterStop => cyclesAwaiting + timersPending <= 1)
    /\ [][(AfterStop /\ AfterStop') => cyclesAwaiting' <= cyclesAwaiting]_vars
    /\ AfterStop ~> (Active \/ (cyclesAwaiting = 0 /\ timersPending = 0))

====
